---- MODULE Spec2Model ----
(***************************************************************************)
(* ShopifyMonitor (src/monitor.js): one monitoring run.                    *)
(*                                                                         *)
(* run() is a single thread of control; every `await` is a step.  The      *)
(* state is the monitor object (results, timestamp), the local `errors`    *)
(* array of run(), the browser, the document the page last navigated to,   *)
(* the local results file, the remote sheet and the outcome of run()'s     *)
(* promise.  The site, the file system and the Sheets API are the          *)
(* environment: their answers are chosen with \E in the step that awaits   *)
(* them.                                                                   *)
(*                                                                         *)
(* Strings are TLC strings; a title or a body is a sequence of words and   *)
(* String.prototype.includes is membership of a word.                      *)
(***************************************************************************)
EXTENDS Integers, Sequences, FiniteSets, TLC

VARIABLES
    pc,         \* position of run(): the await it is about to execute
    results,    \* this.results
    timestamp,  \* this.timestamp, the date taken in the constructor
    clock,      \* the wall clock read by addResult (new Date())
    errors,     \* const errors = [] of run(), filled by the console listener
    browser,    \* "none" | "open" | "closed"
    page,       \* outcome of the page's last goto
    visited,    \* URLs the page was asked to navigate to, in order
    navIdx,     \* index into navChecks of checkMainNavigation's loop
    keyIdx,     \* index into pagesToCheck of checkKeyPages' loop
    file,       \* results-<date>.json: whether it exists, and its content
    sheet,      \* rows of Sheet1 in the remote spreadsheet
    uploadLog,  \* what uploadToGoogleSheets logged: "none" | "uploaded" | "failed"
    runError    \* the error run() rejected with, or "none"

vars == <<pc, results, timestamp, clock, errors, browser, page, visited,
          navIdx, keyIdx, file, sheet, uploadLog, runError>>

----------------------------------------------------------------------------
\* Bounds of the model

\* console errors the listener records before the model stops adding more
MaxErrors == 1

\* key pages of one run that answer with anything but a clean 200
MaxFaults == 2

\* errors.slice(0, 3): how many messages the JavaScript-errors result quotes
ErrorSample == 3

\* .slice(0, 10): how many links checkBrokenLinks samples
LinkLimit == 10

----------------------------------------------------------------------------
\* Fixed data of the program

StoreUrl == "https://lolovivijewelry.com"

navChecks ==
    << [selector |-> "header nav",                name |-> "Main Navigation"],
       [selector |-> "[href*=\"collections\"]",   name |-> "Collections Link"],
       [selector |-> ".cart-link, [href*=\"cart\"]", name |-> "Cart Link"],
       [selector |-> ".search, [type=\"search\"]", name |-> "Search Function"] >>

pagesToCheck ==
    << [url |-> "/collections",   name |-> "Collections Page"],
       [url |-> "/pages/about",   name |-> "About Page"],
       [url |-> "/pages/contact", name |-> "Contact Page"],
       [url |-> "/cart",          name |-> "Cart Page"],
       [url |-> "/account/login", name |-> "Login Page"] >>

headers == << <<"Date", "Test", "Status", "Details", "Timestamp">> >>

\* Sheet1 as the setup leaves it: the header row typed into row 1
SheetAtStart == << <<"Date", "Test", "Status", "Details", "Timestamp">> >>

\* the file system entry of results-<date>.json
NoFile == [exists |-> FALSE, content |-> << >>]
Written(text) == [exists |-> TRUE, content |-> text]

----------------------------------------------------------------------------
\* The environment: what the site can answer

Dates == {"2024-01-01"}

Titles == { <<"Home">>, <<"404", "Not", "Found">>, <<"Error">> }
Bodies == { <<"Welcome">>, <<"Page not found">>, <<"Order", "404">> }
Statuses == {200, 404}
NavErrors == {"Timeout 10000ms exceeded"}
ConsoleTexts == {"Uncaught TypeError"}

Selectors == { navChecks[i].selector : i \in 1..Len(navChecks) }

\* a.href of an anchor: always absolute; scheme and host are what the code
\* and the link check look at
Href(scheme, host, path) == [scheme |-> scheme, host |-> host, path |-> path]
AnchorLists ==
    { << >>,
      << Href("mailto", "", "shop@lolovivijewelry.com") >>,
      << Href("https", "instagram.com", "/lolovivi"),
         Href("https", "lolovivijewelry.com", "/collections") >> }

NoPage == [kind |-> "blank"]

Response(url, status, title, body, elems, anchors) ==
    [kind |-> "response", url |-> url, status |-> status, title |-> title,
     body |-> body, elems |-> elems, anchors |-> anchors]

Threw(url, msg) == [kind |-> "threw", url |-> url, message |-> msg]

----------------------------------------------------------------------------
\* Strings

Includes(s, w) == \E i \in 1..Len(s) : s[i] = w

RECURSIVE Join(_, _)
Join(s, sep) ==
    IF s = << >> THEN ""
    ELSE IF Len(s) = 1 THEN s[1]
    ELSE s[1] \o sep \o Join(Tail(s), sep)

Min(a, b) == IF a < b THEN a ELSE b

Slice(s, n) == SubSeq(s, 1, Min(n, Len(s)))

\* page.content(): the serialized document, title element included
Content(p) == <<"<title>">> \o p.title \o <<"</title>">> \o p.body

----------------------------------------------------------------------------
\* addResult (lines 191-200)

\* new Date().toISOString() at clock value c
Iso(c) == "T" \o ToString(c)

\* addResult with unshift in place of push
addResult_unshift(test, status, details) ==
    /\ results' = << [date |-> timestamp, test |-> test, status |-> status,
                      details |-> details, timestamp |-> Iso(clock)] >> \o results
    /\ clock' = clock + 1

addResult(test, status, details) ==
    /\ results' = Append(results,
                         [date |-> timestamp, test |-> test, status |-> status,
                          details |-> details, timestamp |-> Iso(clock)])
    /\ clock' = clock + 1

----------------------------------------------------------------------------
\* run(): setup (lines 47-48)

Init ==
    /\ pc = "launch"
    /\ results = << >>
    /\ timestamp \in Dates
    /\ clock = 0
    /\ errors = << >>
    /\ browser = "none"
    /\ page = NoPage
    /\ visited = << >>
    /\ navIdx = 1
    /\ keyIdx = 1
    /\ file = NoFile
    /\ sheet = SheetAtStart
    /\ uploadLog = "none"
    /\ runError = "none"

\* await chromium.launch(): outside the try block, a rejection leaves run()
Launch ==
    /\ pc = "launch"
    /\ \E ok \in BOOLEAN :
          IF ok
          THEN /\ browser' = "open"
               /\ pc' = "newPage"
               /\ UNCHANGED runError
          ELSE /\ runError' = "browserType.launch: Executable doesn't exist"
               /\ pc' = "rejected"
               /\ UNCHANGED browser
    /\ UNCHANGED <<results, timestamp, clock, errors, page, visited, navIdx,
                   keyIdx, file, sheet, uploadLog>>

\* await browser.newPage(): outside the try block as well; when it resolves
\* run() enters the try block, registers the console listener and calls
\* checkMainNavigation, which awaits page.goto
NewPage ==
    /\ pc = "newPage"
    /\ \E ok \in BOOLEAN :
          IF ok
          THEN /\ pc' = "navGoto"
               /\ UNCHANGED runError
          ELSE /\ runError' = "browser.newPage: Target closed"
               /\ pc' = "rejected"
    /\ UNCHANGED <<results, timestamp, clock, errors, browser, page, visited,
                   navIdx, keyIdx, file, sheet, uploadLog>>

\* page.on('console', ...) callback (lines 55-59); it runs while run() is
\* suspended in an await of the pipeline
Listening == pc \in {"navGoto", "navProbe", "key", "links"}

OnConsole ==
    /\ Listening
    /\ \E type \in {"error", "warning"}, text \in ConsoleTexts :
          IF type = "error" /\ Len(errors) < MaxErrors
          THEN errors' = Append(errors, text)
          ELSE UNCHANGED errors
    /\ UNCHANGED <<pc, results, timestamp, clock, browser, page, visited,
                   navIdx, keyIdx, file, sheet, uploadLog, runError>>

----------------------------------------------------------------------------
\* checkMainNavigation (lines 89-121)

TitleSuggestsError(title) == Includes(title, "404") \/ Includes(title, "Error")

HomePages ==
    { Response(StoreUrl, st, t, <<"Welcome">>, el, << >>) :
        st \in Statuses, t \in Titles, el \in SUBSET Selectors }
    \cup { Threw(StoreUrl, m) : m \in NavErrors }

\* await page.goto(home); await page.title(); the title test
NavGoto ==
    /\ pc = "navGoto"
    /\ \E p \in HomePages :
          /\ page' = p
          /\ visited' = Append(visited, StoreUrl)
          /\ IF p.kind = "threw"
             THEN /\ addResult("Navigation Check", "FAIL",
                               "Error checking navigation: " \o p.message)
                  /\ pc' = "key"
             ELSE IF TitleSuggestsError(p.title)
             THEN /\ addResult("Homepage Load", "FAIL",
                               "Page title suggests error: " \o Join(p.title, " "))
                  /\ pc' = "key"
             ELSE /\ pc' = "navProbe"
                  /\ UNCHANGED <<results, clock>>
    /\ navIdx' = 1
    /\ UNCHANGED <<timestamp, errors, browser, keyIdx, file, sheet, uploadLog,
                   runError>>

\* one round of the loop over navChecks: await page.$(check.selector)
NavProbe ==
    /\ pc = "navProbe"
    /\ LET check == navChecks[navIdx]
       IN  IF check.selector \in page.elems
           THEN addResult(check.name, "PASS", "Element found and accessible")
           ELSE addResult(check.name, "FAIL",
                          "Element not found: " \o check.selector)
    /\ navIdx' = navIdx + 1
    /\ pc' = IF navIdx = Len(navChecks) THEN "key" ELSE "navProbe"
    /\ UNCHANGED <<timestamp, errors, browser, page, visited, keyIdx, file,
                   sheet, uploadLog, runError>>

----------------------------------------------------------------------------
\* checkKeyPages (lines 123-155)

KeyUrl(i) == StoreUrl \o pagesToCheck[i].url

KeyNames == { pagesToCheck[i].name : i \in 1..Len(pagesToCheck) }

\* ClassifyKeyPage looking for the error text in the body only
ClassifyKeyPage_bodyOnly(p) ==
    IF p.kind = "threw"
    THEN [status |-> "FAIL", details |-> "Failed to load: " \o p.message]
    ELSE IF p.status = 200
    THEN IF Includes(p.body, "404") \/ Includes(p.body, "Page not found")
         THEN [status |-> "FAIL", details |-> "404 error detected"]
         ELSE [status |-> "PASS",
               details |-> "Loaded successfully (" \o ToString(p.status) \o ")"]
    ELSE [status |-> "FAIL", details |-> "HTTP " \o ToString(p.status)]

\* what one round of the loop records for the outcome p of its page.goto
ClassifyKeyPage(p) ==
    IF p.kind = "threw"
    THEN [status |-> "FAIL", details |-> "Failed to load: " \o p.message]
    ELSE IF p.status = 200
    THEN IF Includes(Content(p), "404") \/ Includes(Content(p), "Page not found")
         THEN [status |-> "FAIL", details |-> "404 error detected"]
         ELSE [status |-> "PASS",
               details |-> "Loaded successfully (" \o ToString(p.status) \o ")"]
    ELSE [status |-> "FAIL", details |-> "HTTP " \o ToString(p.status)]

\* page.goto resolves with the main response or rejects; it resolves with
\* null only for about:blank and same-document navigations, which none of
\* the URLs of the run is
KeyOutcomes(url) ==
    { Response(url, st, t, b, {}, << >>) :
        st \in Statuses, t \in Titles, b \in Bodies }
    \cup { Threw(url, m) : m \in NavErrors }

\* a key page that loads with 200 and shows no error text
Clean(p) ==
    /\ p.kind = "response"
    /\ p.status = 200
    /\ ~Includes(Content(p), "404")
    /\ ~Includes(Content(p), "Page not found")

KeyFaults ==
    Cardinality({ i \in 1..Len(results) :
                    results[i].test \in KeyNames /\ results[i].status # "PASS" })

\* KeyPage with the try/catch around the loop instead of inside it: a goto
\* that throws records its FAIL and ends the loop
KeyPage_catchOutside ==
    /\ pc = "key"
    /\ \E p \in KeyOutcomes(KeyUrl(keyIdx)) :
          /\ Clean(p) \/ KeyFaults < MaxFaults
          /\ page' = p
          /\ visited' = Append(visited, KeyUrl(keyIdx))
          /\ LET r == ClassifyKeyPage(p)
             IN  addResult(pagesToCheck[keyIdx].name, r.status, r.details)
          /\ pc' = IF keyIdx = Len(pagesToCheck) \/ p.kind = "threw"
                   THEN "links" ELSE "key"
    /\ keyIdx' = keyIdx + 1
    /\ UNCHANGED <<timestamp, errors, browser, navIdx, file, sheet, uploadLog,
                   runError>>

\* one round of the loop over pagesToCheck: await page.goto, await
\* page.content, addResult; the catch of the round records the FAIL
KeyPage ==
    /\ pc = "key"
    /\ \E p \in KeyOutcomes(KeyUrl(keyIdx)) :
          /\ Clean(p) \/ KeyFaults < MaxFaults
          /\ page' = p
          /\ visited' = Append(visited, KeyUrl(keyIdx))
          /\ LET r == ClassifyKeyPage(p)
             IN  addResult(pagesToCheck[keyIdx].name, r.status, r.details)
    /\ keyIdx' = keyIdx + 1
    /\ pc' = IF keyIdx = Len(pagesToCheck) THEN "links" ELSE "key"
    /\ UNCHANGED <<timestamp, errors, browser, navIdx, file, sheet, uploadLog,
                   runError>>

----------------------------------------------------------------------------
\* checkBrokenLinks (lines 157-189)

HrefText(h) == h.scheme \o "://" \o h.host \o h.path

\* the filter of the page function (lines 163-165)
Qualifies(h) == h.scheme \in {"http", "https"}

\* page.$eval(selector, fn) hands fn the FIRST element matching the selector
\* and rejects when none matches.  The page function calls anchors.map on
\* what it is given; an anchor element has no map method, so the call
\* throws and $eval rejects.
DollarEval(p) ==
    IF p.anchors = << >>
    THEN [threw |-> TRUE, value |-> << >>,
          message |-> "page.$eval: Failed to find element matching selector \"a[href]\""]
    ELSE [threw |-> TRUE, value |-> << >>,
          message |-> "page.$eval: anchors.map is not a function"]

LinkPages ==
    { Response(StoreUrl, 200, <<"Home">>, <<"Welcome">>, Selectors, a) :
        a \in AnchorLists }
    \cup { Threw(StoreUrl, m) : m \in NavErrors }

\* outcome of page.goto(link) in the loop: TRUE when it counts as broken
\* (status >= 400, or the goto threw)
BrokenCount(outs) == Cardinality({ i \in DOMAIN outs : outs[i] })

\* the whole function: await page.goto(home), await page.$eval, the loop
\* over the links and the aggregate result; the outer catch records
\* 'Link Check'
CheckBrokenLinks ==
    /\ pc = "links"
    /\ \E p \in LinkPages :
          /\ page' = p
          /\ IF p.kind = "threw"
             THEN /\ addResult("Link Check", "FAIL",
                               "Error checking links: " \o p.message)
                  /\ visited' = Append(visited, StoreUrl)
             ELSE LET ev == DollarEval(p)
                      links == Slice(ev.value, LinkLimit)
                  IN  IF ev.threw
                      THEN /\ addResult("Link Check", "FAIL",
                                        "Error checking links: " \o ev.message)
                           /\ visited' = Append(visited, StoreUrl)
                      ELSE \E outs \in [1..Len(links) -> BOOLEAN] :
                             /\ visited' = Append(visited, StoreUrl)
                                             \o [i \in 1..Len(links) |-> HrefText(links[i])]
                             /\ IF BrokenCount(outs) > 0
                                THEN addResult("Broken Links", "FAIL",
                                       "Found " \o ToString(BrokenCount(outs))
                                       \o " broken links out of "
                                       \o ToString(Len(links)) \o " checked")
                                ELSE addResult("Broken Links", "PASS",
                                       "All " \o ToString(Len(links))
                                       \o " links working properly")
    /\ pc' = "js"
    /\ UNCHANGED <<timestamp, errors, browser, navIdx, keyIdx, file, sheet,
                   uploadLog, runError>>

----------------------------------------------------------------------------
\* run(): the JavaScript-errors report, teardown and persistence (lines 70-86)

JsErrors ==
    /\ pc = "js"
    /\ IF Len(errors) > 0
       THEN addResult("JavaScript Errors", "FAIL",
                      "Found " \o ToString(Len(errors)) \o " errors: "
                      \o Join(Slice(errors, ErrorSample), ", "))
       ELSE addResult("JavaScript Errors", "PASS", "No JavaScript errors detected")
    /\ pc' = "finally"
    /\ UNCHANGED <<timestamp, errors, browser, page, visited, navIdx, keyIdx,
                   file, sheet, uploadLog, runError>>

\* finally { await browser.close() }
CloseBrowser ==
    /\ pc = "finally"
    /\ browser' = "closed"
    /\ pc' = "save"
    /\ UNCHANGED <<results, timestamp, clock, errors, page, visited, navIdx,
                   keyIdx, file, sheet, uploadLog, runError>>

\* JSON.stringify(this.results, null, 2): an array of objects, each the
\* key/value pairs of one result in insertion order
Stringify(rs) ==
    [i \in 1..Len(rs) |->
        << <<"date", rs[i].date>>, <<"test", rs[i].test>>,
           <<"status", rs[i].status>>, <<"details", rs[i].details>>,
           <<"timestamp", rs[i].timestamp>> >>]

\* saveResults (lines 202-206): a rejected writeFile is not caught and
\* leaves run()
saveResults ==
    /\ pc = "save"
    /\ \E ok \in BOOLEAN :
          IF ok
          THEN /\ file' = Written(Stringify(results))
               /\ pc' = "upload"
               /\ UNCHANGED runError
          ELSE /\ runError' = "EACCES: permission denied, open"
               /\ pc' = "rejected"
               /\ UNCHANGED file
    /\ UNCHANGED <<results, timestamp, clock, errors, browser, page, visited,
                   navIdx, keyIdx, sheet, uploadLog>>

\* the rows prepared for the sheet (lines 222-228)
Values(rs) ==
    [i \in 1..Len(rs) |->
        <<rs[i].date, rs[i].test, rs[i].status, rs[i].details, rs[i].timestamp>>]

Credentials == {"valid", "missing", "malformed"}
ApiAnswers == {"ok", "auth error", "network error"}

\* uploadToGoogleSheets without its try/catch: a failed upload leaves run()
uploadToGoogleSheets_noCatch ==
    /\ pc = "upload"
    /\ \E cred \in Credentials, api \in ApiAnswers :
          IF cred = "valid" /\ api = "ok"
          THEN /\ sheet' = sheet \o headers \o Values(results)
               /\ uploadLog' = "uploaded"
               /\ pc' = "done"
               /\ UNCHANGED runError
          ELSE /\ uploadLog' = "failed"
               /\ runError' = "upload: " \o cred \o ", " \o api
               /\ pc' = "rejected"
               /\ UNCHANGED sheet
    /\ UNCHANGED <<results, timestamp, clock, errors, browser, page, visited,
                   navIdx, keyIdx, file>>

\* uploadToGoogleSheets (lines 208-246): JSON.parse of the credentials, the
\* append of [...headers, ...values], and the catch around both
uploadToGoogleSheets ==
    /\ pc = "upload"
    /\ \E cred \in Credentials, api \in ApiAnswers :
          IF cred = "valid" /\ api = "ok"
          THEN /\ sheet' = sheet \o headers \o Values(results)
               /\ uploadLog' = "uploaded"
          ELSE /\ uploadLog' = "failed"
               /\ UNCHANGED sheet
    /\ pc' = "done"
    /\ UNCHANGED <<results, timestamp, clock, errors, browser, page, visited,
                   navIdx, keyIdx, file, runError>>

----------------------------------------------------------------------------
\* run() (lines 46-87).  The catch of lines 77-79 ('Monitor Execution') has
\* no step of its own: each of the three checks catches what its awaits
\* throw, and the statements of the try block outside the checks (page.on,
\* the errors report) do not throw, so no error reaches it.

Next ==
    \/ Launch
    \/ NewPage
    \/ OnConsole
    \/ NavGoto
    \/ NavProbe
    \/ KeyPage
    \/ CheckBrokenLinks
    \/ JsErrors
    \/ CloseBrowser
    \/ saveResults
    \/ uploadToGoogleSheets

Spec == Init /\ [][Next]_vars

----------------------------------------------------------------------------
\* Reading the state

\* the check of run() that records a result named test: 1 navigation,
\* 2 key pages, 3 links, 4 JavaScript errors, 0 the top-level catch
Phase(test) ==
    IF test \in {"Navigation Check", "Homepage Load"}
                \cup { navChecks[i].name : i \in 1..Len(navChecks) } THEN 1
    ELSE IF test \in KeyNames THEN 2
    ELSE IF test \in {"Link Check", "Broken Links"} THEN 3
    ELSE IF test = "JavaScript Errors" THEN 4
    ELSE 0

InPhase(n) == { i \in 1..Len(results) : Phase(results[i].test) = n }

\* run() has returned or thrown
Finished == pc \in {"done", "rejected"}

\* saveResults was called
PersistenceAttempted == pc \in {"upload", "done"} \/ (pc = "rejected" /\ browser = "closed")

\* the last round of checkKeyPages' loop has just recorded its result, and
\* page still holds the outcome of that round's goto
KeyJustChecked == (pc = "key" /\ keyIdx > 1) \/ pc = "links"

LastResult == results[Len(results)]

\* rounds of checkKeyPages' loop completed so far
KeyRoundsDone ==
    IF pc \in {"launch", "newPage", "navGoto", "navProbe"} THEN 0
    ELSE IF pc = "key" THEN keyIdx - 1
    ELSE IF pc = "rejected" /\ browser # "closed" THEN 0
    ELSE Len(pagesToCheck)

\* rounds of checkMainNavigation's loop completed on the page now loaded
ProbesDone ==
    IF pc = "navProbe" THEN navIdx - 1
    ELSE IF pc = "key" /\ keyIdx = 1 /\ page.kind = "response"
            /\ ~TitleSuggestsError(page.title) THEN Len(navChecks)
    ELSE 0

----------------------------------------------------------------------------
\* Claims

\* C1: if chromium.launch rejects, the run still records a result
\* 'Monitor Execution' with status FAIL and still writes the local file
\* before run() finishes.
C1_LaunchFailureRecorded ==
    (pc = "rejected" /\ browser = "none") =>
        /\ \E i \in 1..Len(results) :
              results[i].test = "Monitor Execution" /\ results[i].status = "FAIL"
        /\ file.exists

\* C2: the file written by saveResults holds exactly the results of the run
\* in order: navigation results, then the five key-page results, then the one
\* link result, then the one JavaScript-errors result; results only grows by
\* appending at its end and no recorded result changes or disappears.
C2_FileIsResultsInOrder ==
    /\ [](file.exists =>
            /\ Len(file.content) = Len(results)
            /\ \A i \in 1..Len(results) :
                  file.content[i] = << <<"date", results[i].date>>,
                               <<"test", results[i].test>>,
                               <<"status", results[i].status>>,
                               <<"details", results[i].details>>,
                               <<"timestamp", results[i].timestamp>> >>
            /\ Cardinality(InPhase(1)) >= 1
            /\ Cardinality(InPhase(2)) = Len(pagesToCheck)
            /\ Cardinality(InPhase(3)) = 1
            /\ Cardinality(InPhase(4)) = 1)
    /\ [](\A i \in 1..Len(results) :
            /\ Phase(results[i].test) >= 1
            /\ i > 1 => Phase(results[i - 1].test) <= Phase(results[i].test))
    /\ [][\/ results' = results
          \/ /\ Len(results') = Len(results) + 1
             /\ SubSeq(results', 1, Len(results)) = results]_vars

C2_Witness ==
    /\ file.exists
    /\ Len(results) = Len(navChecks) + Len(pagesToCheck) + 2
    /\ \E i \in 1..Len(results) : results[i].status = "FAIL"

\* C3: a failed upload is caught inside uploadToGoogleSheets: run() completes
\* without throwing, the local file had been written before the upload
\* started, and the upload leaves the file as it was.
C3_UploadFailureContained ==
    /\ [](uploadLog = "failed" =>
            pc = "done" /\ runError = "none" /\ file.exists)
    /\ [][pc = "upload" => (file.exists /\ file' = file)]_vars

C3_Witness == uploadLog = "failed" /\ pc = "done" /\ file.exists

\* C4: the browser is closed on every path through run(), before
\* persistence starts; no failure in setup or in the pipeline leaves an
\* acquired browser open or keeps persistence from being attempted.  Stated
\* for the runs that acquired a browser (C1 is the run that acquired none).
C4_BrowserReleasedThenPersist ==
    /\ pc \in {"save", "upload", "done"} => browser = "closed"
    /\ (Finished /\ browser # "none") =>
          browser = "closed" /\ PersistenceAttempted

\* C5: a key page answering 404 gets a result with status WARN, never FAIL.
C5_KeyPage404Warn ==
    (KeyJustChecked /\ page.kind = "response" /\ page.status = 404) =>
        /\ LastResult.test = pagesToCheck[KeyRoundsDone].name
        /\ LastResult.status = "WARN"

\* C6: a navigation probe whose selector matches nothing gets a result with
\* status WARN, never FAIL, and the remaining probes and checks still run.
C6_ProbeMissWarn ==
    /\ \A i \in 1..ProbesDone :
          navChecks[i].selector \notin page.elems =>
              /\ results[i].test = navChecks[i].name
              /\ results[i].status = "WARN"
    /\ pc = "done" => Cardinality(InPhase(2)) = Len(pagesToCheck)

\* C7: with no qualifying internal link on the homepage the link check's one
\* result is WARN; and the link check never navigates to an external link.
C7_NoLinksWarn ==
    LET Internal(h) == Qualifies(h) /\ h.host = "lolovivijewelry.com"
    IN
    /\ (/\ pc = "js"
        /\ page.kind = "response"
        /\ \A i \in 1..Len(page.anchors) : ~Internal(page.anchors[i]))
       => (Phase(LastResult.test) = 3 /\ LastResult.status = "WARN")
    /\ \A i \in 1..Len(visited) :
          \/ visited[i] = StoreUrl
          \/ \E k \in 1..Len(pagesToCheck) : visited[i] = KeyUrl(k)
          \/ \E a \in AnchorLists : \E k \in 1..Len(a) :
                Internal(a[k]) /\ visited[i] = HrefText(a[k])

\* C8: a key page answering 200 whose title contains "404" gets a result
\* with status FAIL, never PASS.
C8_Soft404Fails ==
    (/\ KeyJustChecked
     /\ page.kind = "response"
     /\ page.status = 200
     /\ Includes(page.title, "404"))
    => /\ LastResult.test = pagesToCheck[KeyRoundsDone].name
       /\ LastResult.status = "FAIL"

C8_Witness ==
    /\ KeyJustChecked
    /\ page.kind = "response"
    /\ page.status = 200
    /\ Includes(page.title, "404")
    /\ ~Includes(page.body, "404")
    /\ ~Includes(page.body, "Page not found")

\* C9: a successful upload appends exactly one row per result and nothing
\* else: as many rows as results, in result order, each row the (date, test,
\* status, details, timestamp) of its result.
C9_OneRowPerResult ==
    uploadLog = "uploaded" =>
        /\ Len(sheet) = Len(SheetAtStart) + Len(results)
        /\ \A i \in 1..Len(results) :
              Len(SheetAtStart) + i \in DOMAIN sheet
              /\ sheet[Len(SheetAtStart) + i] =
                    <<results[i].date, results[i].test, results[i].status,
                      results[i].details, results[i].timestamp>>

\* C10: checkKeyPages navigates to each of the five paths whatever the
\* earlier pages answered, and records exactly one result per path, in list
\* order.
C10_EveryKeyPageChecked ==
    LET keyResults == SelectSeq(results, LAMBDA r : r.test \in KeyNames)
        keyVisits  == SelectSeq(visited, LAMBDA u : u # StoreUrl)
    IN  /\ Len(keyResults) = KeyRoundsDone
        /\ Len(keyVisits) = KeyRoundsDone
        /\ \A i \in 1..KeyRoundsDone :
              /\ keyResults[i].test = pagesToCheck[i].name
              /\ keyVisits[i] = KeyUrl(i)
        /\ InPhase(2) = { Cardinality(InPhase(1)) + i : i \in 1..KeyRoundsDone }

C10_Witness ==
    /\ pc = "links"
    /\ Cardinality(InPhase(2)) = Len(pagesToCheck)
    /\ \E i, j \in InPhase(2) :
          /\ i < j
          /\ results[i].details = "Failed to load: Timeout 10000ms exceeded"
          /\ results[j].details = "HTTP 404"

====
